---- MODULE Spec2Model ----
(***************************************************************************)
(* MapReduce coordinator (src/src/mr/coordinator.go), worker               *)
(* (src/unnamed/part_000, package mr: Worker, performMapTask,              *)
(* performReduceTask, reportTask) and RPC types (src/unnamed/part_001).    *)
(*                                                                         *)
(* The coordinator's handlers run under c.mu, so each RPC is one atomic    *)
(* step.  A worker is a sequential process; every operation of it that     *)
(* touches the shared directory (a rename, a remove, an open) is one step. *)
(*                                                                         *)
(* Time: Task.StartTime is kept as Elapsed = now - StartTime, saturated at *)
(* the first value above the timeout, which is all checkTimeouts reads.    *)
(***************************************************************************)
EXTENDS Integers, FiniteSets, Sequences, TLC

\* ---- bounds of the model
\* The size of a run: worker processes started + input files + nReduce +
\* faults (I/O errors and crashes) the environment may inject
MaxSize == 6
\* worker processes started, at most
MaxWorkers == 2
\* the same for the runs checked for progress under fairness
MaxFairSize == 5
\* seconds per step of the clock
TickSeconds == 10
\* input files + nReduce + 1 for the runs of the coordinator against a
\* client that may send any request
MaxRpcSize == 4

\* ---- program constants
TaskIdle == 0
TaskInProgress == 1
TaskCompleted == 2

MapTask == 0
ReduceTask == 1
ExitTask == 2
NoTask == 3

Timeout == 10

VARIABLES mapTasks, reduceTasks, nReduce, nMap, mapDone, allDone,
          worker, interFiles, outFiles, faultsLeft

vars == <<mapTasks, reduceTasks, nReduce, nMap, mapDone, allDone,
          worker, interFiles, outFiles, faultsLeft>>

coordVars == <<mapTasks, reduceTasks, nReduce, nMap, mapDone, allDone>>

\* the worker processes started (mrworker), one entry of worker each
Workers == DOMAIN worker

\* worker 1 never crashes; the others may die at any point
Mortal == Workers \ {1}

MapIds == 0..(nMap - 1)
ReduceIds == 0..(nReduce - 1)

\* now.Sub(StartTime), saturated just above the timeout
Saturate(e) == IF e > Timeout THEN Timeout + 1 ELSE e

\* Task{State: TaskIdle}: StartTime is the zero time, ages ago
NewTask == [State |-> TaskIdle, Elapsed |-> Saturate(Timeout + 1)]

\* the Coordinator struct as a value
Coordinator == [mapTasks |-> mapTasks, reduceTasks |-> reduceTasks,
                nReduce |-> nReduce, nMap |-> nMap,
                mapDone |-> mapDone, allDone |-> allDone]

MakeCoordinator(files, r) ==
    [mapTasks |-> [i \in 0..(files - 1) |-> NewTask],
     reduceTasks |-> [i \in 0..(r - 1) |-> NewTask],
     nReduce |-> r, nMap |-> files,
     mapDone |-> FALSE, allDone |-> FALSE]

\* mutant: the age test the wrong way round, StartTime.Sub(now) > timeout,
\* which never holds
ReapTableNever(tasks) ==
    [i \in DOMAIN tasks |->
        IF tasks[i].State = TaskInProgress /\ (0 - tasks[i].Elapsed) > Timeout
        THEN [tasks[i] EXCEPT !.State = TaskIdle]
        ELSE tasks[i]]

\* mutant: ">=" for ">" in the age test
ReapTableAtTimeout(tasks) ==
    [i \in DOMAIN tasks |->
        IF tasks[i].State = TaskInProgress /\ tasks[i].Elapsed >= Timeout
        THEN [tasks[i] EXCEPT !.State = TaskIdle]
        ELSE tasks[i]]

\* one pass of a checkTimeouts loop over a task table
ReapTable(tasks) ==
    [i \in DOMAIN tasks |->
        IF tasks[i].State = TaskInProgress /\ tasks[i].Elapsed > Timeout
        THEN [tasks[i] EXCEPT !.State = TaskIdle]
        ELSE tasks[i]]

checkTimeouts(c) ==
    [c EXCEPT !.mapTasks = ReapTable(c.mapTasks),
              !.reduceTasks = ReapTable(c.reduceTasks)]

\* len(tasks) of a table indexed from 0
Len0(tasks) == Cardinality(DOMAIN tasks)

\* for i, task := range tasks { if task.State == TaskIdle {...return} }
HasIdle(tasks) == \E i \in DOMAIN tasks : tasks[i].State = TaskIdle

FirstIdle(tasks) ==
    CHOOSE i \in DOMAIN tasks :
        /\ tasks[i].State = TaskIdle
        /\ \A j \in DOMAIN tasks : j < i => tasks[j].State # TaskIdle

\* allMapsDone / allReducesDone
AllCompleted(tasks) == \A i \in DOMAIN tasks : tasks[i].State = TaskCompleted

\* State = TaskInProgress; StartTime = time.Now()
Dispatch(tasks, i) ==
    [tasks EXCEPT ![i] = [State |-> TaskInProgress, Elapsed |-> 0]]

Reply(type, id) == [TaskType |-> type, TaskId |-> id]

\* mutant: EXIT as soon as no reduce task is IDLE, allReducesDone unchecked
GetTaskReduceNoCheck(c) ==
    IF HasIdle(c.reduceTasks)
    THEN LET i == FirstIdle(c.reduceTasks) IN
         [c |-> [c EXCEPT !.reduceTasks = Dispatch(c.reduceTasks, i)],
          reply |-> Reply(ReduceTask, i)]
    ELSE [c |-> [c EXCEPT !.allDone = TRUE], reply |-> Reply(ExitTask, 0)]

\* The reduce half of GetTask, on a coordinator already past the map phase
GetTaskReduce(c) ==
    IF HasIdle(c.reduceTasks)
    THEN LET i == FirstIdle(c.reduceTasks) IN
         [c |-> [c EXCEPT !.reduceTasks = Dispatch(c.reduceTasks, i)],
          reply |-> Reply(ReduceTask, i)]
    ELSE IF AllCompleted(c.reduceTasks)
         THEN [c |-> [c EXCEPT !.allDone = TRUE], reply |-> Reply(ExitTask, 0)]
         ELSE [c |-> c, reply |-> Reply(NoTask, 0)]

\* mutant: the call that finds every map COMPLETED sets mapDone and answers
\* NoTask instead of going on to the reduce tasks
GetTaskDispatchNoFallThrough(c) ==
    IF ~c.mapDone
    THEN IF HasIdle(c.mapTasks)
         THEN LET i == FirstIdle(c.mapTasks) IN
              [c |-> [c EXCEPT !.mapTasks = Dispatch(c.mapTasks, i)],
               reply |-> Reply(MapTask, i)]
         ELSE IF AllCompleted(c.mapTasks)
              THEN [c |-> [c EXCEPT !.mapDone = TRUE], reply |-> Reply(NoTask, 0)]
              ELSE [c |-> c, reply |-> Reply(NoTask, 0)]
    ELSE GetTaskReduce(c)

\* mutant: allMapsDone is not looked at: with no map task IDLE the call goes
\* on to the reduce tasks
GetTaskDispatchNoMapsCheck(c) ==
    IF ~c.mapDone
    THEN IF HasIdle(c.mapTasks)
         THEN LET i == FirstIdle(c.mapTasks) IN
              [c |-> [c EXCEPT !.mapTasks = Dispatch(c.mapTasks, i)],
               reply |-> Reply(MapTask, i)]
         ELSE GetTaskReduce([c EXCEPT !.mapDone = TRUE])
    ELSE GetTaskReduce(c)

\* The dispatch of GetTask, after checkTimeouts
GetTaskDispatch(c) ==
    IF ~c.mapDone
    THEN IF HasIdle(c.mapTasks)
         THEN LET i == FirstIdle(c.mapTasks) IN
              [c |-> [c EXCEPT !.mapTasks = Dispatch(c.mapTasks, i)],
               reply |-> Reply(MapTask, i)]
         ELSE IF AllCompleted(c.mapTasks)
              THEN GetTaskReduce([c EXCEPT !.mapDone = TRUE])
              ELSE [c |-> c, reply |-> Reply(NoTask, 0)]
    ELSE GetTaskReduce(c)

\* Coordinator.GetTask: the new coordinator and the reply
GetTaskResult(c) == GetTaskDispatch(checkTimeouts(c))

\* mutant: the report's Success flag is not looked at
ReportedStateAlwaysCompleted(success) == TaskCompleted

\* if args.Success { State = TaskCompleted } else { State = TaskIdle }
ReportedState(success) == IF success THEN TaskCompleted ELSE TaskIdle

\* mutant: a failure report also takes back allDone
ReportTaskResetsDone(c, type, id, success) ==
    IF type = MapTask
    THEN IF id >= 0 /\ id < c.nMap
         THEN [c EXCEPT !.mapTasks[id].State = ReportedState(success)]
         ELSE c
    ELSE IF type = ReduceTask
         THEN IF id >= 0 /\ id < c.nReduce
              THEN [c EXCEPT !.reduceTasks[id].State = ReportedState(success),
                             !.allDone = @ /\ success]
              ELSE c
         ELSE c

\* mutant: a report is taken only for a task that is IN_PROGRESS
ReportTaskIfInProgress(c, type, id, success) ==
    IF type = MapTask
    THEN IF id >= 0 /\ id < c.nMap /\ c.mapTasks[id].State = TaskInProgress
         THEN [c EXCEPT !.mapTasks[id].State = ReportedState(success)]
         ELSE c
    ELSE IF type = ReduceTask
         THEN IF id >= 0 /\ id < c.nReduce
                 /\ c.reduceTasks[id].State = TaskInProgress
              THEN [c EXCEPT !.reduceTasks[id].State = ReportedState(success)]
              ELSE c
         ELSE c

\* mutant: "else {" for "else if args.TaskType == ReduceTask {"
ReportTaskElseReduce(c, type, id, success) ==
    IF type = MapTask
    THEN IF id >= 0 /\ id < c.nMap
         THEN [c EXCEPT !.mapTasks[id].State = ReportedState(success)]
         ELSE c
    ELSE IF id >= 0 /\ id < c.nReduce
         THEN [c EXCEPT !.reduceTasks[id].State = ReportedState(success)]
         ELSE c

\* Coordinator.ReportTask: the new coordinator
ReportTaskResult(c, type, id, success) ==
    IF type = MapTask
    THEN IF id >= 0 /\ id < c.nMap
         THEN [c EXCEPT !.mapTasks[id].State = ReportedState(success)]
         ELSE c
    ELSE IF type = ReduceTask
         THEN IF id >= 0 /\ id < c.nReduce
              THEN [c EXCEPT !.reduceTasks[id].State = ReportedState(success)]
              ELSE c
         ELSE c

\* Coordinator.Done
Done == allDone

\* ---- the shared directory
\* An intermediate file mr-<m>-<r> or an output file mr-out-<r>.  by/run
\* remember whose rename put it there and how that execution of the task
\* ended: "running", "done" (returned true), "aborted" (returned false or
\* crashed).  trunc: a write to it failed; lost: an input of it was missing.
NoFile == [exists |-> FALSE, by |-> 0, run |-> "none", trunc |-> FALSE, lost |-> FALSE]

Renamed(w, trunc, lost) ==
    [exists |-> TRUE, by |-> w, run |-> "running", trunc |-> trunc, lost |-> lost]

\* the execution of worker w ends: its files learn how
Settle(files, w, how) ==
    [x \in DOMAIN files |->
        IF files[x].exists /\ files[x].by = w /\ files[x].run = "running"
        THEN [files[x] EXCEPT !.run = how, !.by = 0]
        ELSE files[x]]

\* ---- the worker
\* reply := GetTaskReply{} at the top of the loop.  before: the final paths
\* mr-<id>-<r> that were there when the execution of a map task started,
\* for the runs that keep track of it (NotingSpec)
FreshWorker ==
    [pc |-> "get", TaskType |-> NoTask, TaskId |-> 0, k |-> 0, lim |-> 0,
     success |-> FALSE, temps |-> {}, trunc |-> FALSE, lost |-> FALSE,
     before |-> {}]

\* mrcoordinator with `files` input files and nReduce = r, n workers started,
\* f faults to come
InitWithin(size) ==
    \E n \in 1..MaxWorkers, files \in 0..size, r \in 1..size, f \in 0..size :
          LET c == MakeCoordinator(files, r) IN
          /\ n + files + r + f <= size
          /\ worker = [w \in 1..n |-> FreshWorker]
          /\ faultsLeft = f
          /\ mapTasks = c.mapTasks
          /\ reduceTasks = c.reduceTasks
          /\ nReduce = c.nReduce
          /\ nMap = c.nMap
          /\ mapDone = c.mapDone
          /\ allDone = c.allDone
          /\ interFiles = [x \in (0..(files - 1)) \X (0..(r - 1)) |-> NoFile]
          /\ outFiles = [x \in 0..(r - 1) |-> NoFile]

Init == InitWithin(MaxSize)

FairInit == InitWithin(MaxFairSize)

SetCoordinator(c) ==
    /\ mapTasks' = c.mapTasks
    /\ reduceTasks' = c.reduceTasks
    /\ nReduce' = c.nReduce
    /\ nMap' = c.nMap
    /\ mapDone' = c.mapDone
    /\ allDone' = c.allDone

\* where a worker goes on a reply (the switch of Worker)
AfterReply(reply) ==
    CASE reply.TaskType = MapTask -> "map"
      [] reply.TaskType = ReduceTask -> "reduce_read"
      [] reply.TaskType = ExitTask -> "exited"
      [] OTHER -> "sleep"

\* the final paths of the map task of a reply that exist in the directory
FinalsThere(reply) ==
    IF reply.TaskType = MapTask
    THEN {r \in ReduceIds : interFiles[<<reply.TaskId, r>>].exists}
    ELSE {}

\* call("Coordinator.GetTask") and the switch on the reply
GetTask(w) ==
    /\ worker[w].pc = "get"
    /\ LET res == GetTaskResult(Coordinator) IN
       /\ SetCoordinator(res.c)
       /\ worker' = [worker EXCEPT ![w] =
              [FreshWorker EXCEPT !.pc = AfterReply(res.reply),
                                  !.TaskType = res.reply.TaskType,
                                  !.TaskId = res.reply.TaskId]]
    /\ UNCHANGED <<interFiles, outFiles, faultsLeft>>

\* the same call, by a worker that notes, when it is given a map task, which
\* of the task's final paths are in the directory as the execution starts
GetTaskNoting(w) ==
    /\ worker[w].pc = "get"
    /\ LET res == GetTaskResult(Coordinator) IN
       /\ SetCoordinator(res.c)
       /\ worker' = [worker EXCEPT ![w] =
              [FreshWorker EXCEPT !.pc = AfterReply(res.reply),
                                  !.TaskType = res.reply.TaskType,
                                  !.TaskId = res.reply.TaskId,
                                  !.before = FinalsThere(res.reply)]]
    /\ UNCHANGED <<interFiles, outFiles, faultsLeft>>

\* time.Sleep(time.Second) on NoTask, then the top of the loop
Sleep(w) ==
    /\ worker[w].pc = "sleep"
    /\ worker' = [worker EXCEPT ![w] = FreshWorker]
    /\ UNCHANGED <<coordVars, interFiles, outFiles, faultsLeft>>

\* reportTask(type, id, success), then the top of the loop
ReportTask(w) ==
    /\ worker[w].pc = "report"
    /\ SetCoordinator(ReportTaskResult(Coordinator, worker[w].TaskType,
                                       worker[w].TaskId, worker[w].success))
    /\ worker' = [worker EXCEPT ![w] = FreshWorker]
    /\ UNCHANGED <<interFiles, outFiles, faultsLeft>>

\* return from performMapTask / performReduceTask: on to reportTask
Return(w, ok) ==
    [worker[w] EXCEPT !.pc = "report", !.success = ok, !.k = 0, !.lim = 0,
                      !.temps = {}, !.trunc = FALSE, !.lost = FALSE,
                      !.before = {}]

HowEnded(ok) == IF ok THEN "done" ELSE "aborted"

\* the environment fails a file operation, while its budget lasts
IOError ==
    /\ faultsLeft > 0
    /\ faultsLeft' = faultsLeft - 1

NoError == UNCHANGED faultsLeft

\* ---- performMapTask
\* Everything before the first rename, all of it private to the worker: the
\* input is read, mapf called, the temporaries created and written.  On an
\* error (open, read, TempFile, Encode) the temporaries are removed.
MapPrepare(w) ==
    /\ worker[w].pc = "map"
    /\ \/ /\ NoError
          /\ worker' = [worker EXCEPT ![w].pc = "map_rename", ![w].k = 0,
                                      ![w].temps = ReduceIds]
       \/ /\ IOError
          /\ worker' = [worker EXCEPT ![w] = Return(w, FALSE)]
    /\ UNCHANGED <<coordVars, interFiles, outFiles>>

\* a failed rename at reduceId k: the temporaries k.. are removed, then the
\* final names 0..k-1, one os.Remove at a time
RenameFailed(w) ==
    IF worker[w].k = 0
    THEN Return(w, FALSE)
    ELSE [worker[w] EXCEPT !.pc = "map_clean", !.lim = worker[w].k, !.k = 0,
                           !.temps = {}]

\* mutant: "return true" inside the rename loop, after the first rename
MapRenameReturnsEarly(w) ==
    /\ worker[w].pc = "map_rename"
    /\ LET m == worker[w].TaskId
           k == worker[w].k
           renamed == [interFiles EXCEPT ![<<m, k>>] = Renamed(w, FALSE, FALSE)]
       IN \/ /\ NoError
             /\ worker' = [worker EXCEPT ![w] = Return(w, TRUE)]
             /\ interFiles' = Settle(renamed, w, HowEnded(TRUE))
          \/ /\ IOError
             /\ worker' = [worker EXCEPT ![w] = RenameFailed(w)]
             /\ interFiles' = Settle(interFiles, w, HowEnded(FALSE))
    /\ UNCHANGED <<coordVars, outFiles>>

\* os.Rename(tempFiles[k], "mr-<id>-<k>"); after the last one, return true
MapRename(w) ==
    /\ worker[w].pc = "map_rename"
    /\ LET m == worker[w].TaskId
           k == worker[w].k
           renamed == [interFiles EXCEPT ![<<m, k>>] = Renamed(w, FALSE, FALSE)]
       IN \/ /\ NoError
             /\ k + 1 = nReduce
             /\ worker' = [worker EXCEPT ![w] = Return(w, TRUE)]
             /\ interFiles' = Settle(renamed, w, HowEnded(TRUE))
          \/ /\ NoError
             /\ k + 1 < nReduce
             /\ worker' = [worker EXCEPT ![w].k = k + 1, ![w].temps = @ \ {k}]
             /\ interFiles' = renamed
          \/ /\ IOError
             /\ worker' = [worker EXCEPT ![w] = RenameFailed(w)]
             /\ interFiles' = Settle(interFiles, w, HowEnded(FALSE))
    /\ UNCHANGED <<coordVars, outFiles>>

\* os.Remove("mr-<id>-<i>") for i < reduceId; after the last one, return false
MapClean(w) ==
    /\ worker[w].pc = "map_clean"
    /\ LET m == worker[w].TaskId
           k == worker[w].k
           removed == [interFiles EXCEPT ![<<m, k>>] = NoFile]
       IN \/ /\ k + 1 = worker[w].lim
             /\ worker' = [worker EXCEPT ![w] = Return(w, FALSE)]
             /\ interFiles' = removed
          \/ /\ k + 1 < worker[w].lim
             /\ worker' = [worker EXCEPT ![w].k = k + 1]
             /\ interFiles' = removed
    /\ UNCHANGED <<coordVars, outFiles, faultsLeft>>

\* ---- performReduceTask
\* os.Open(fileNames[k]) and the decoding: a missing file is skipped
ReduceRead(w) ==
    /\ worker[w].pc = "reduce_read"
    /\ worker[w].k < nMap
    /\ LET f == interFiles[<<worker[w].k, worker[w].TaskId>>] IN
       worker' = [worker EXCEPT ![w].k = @ + 1,
                                ![w].lost = @ \/ ~f.exists]
    /\ UNCHANGED <<coordVars, interFiles, outFiles, faultsLeft>>

\* After the last input, private to the worker: the sort, ioutil.TempFile
\* (an error returns false), reducef per key and fmt.Fprintf to the
\* temporary, whose error is dropped
ReduceWrite(w) ==
    /\ worker[w].pc = "reduce_read"
    /\ worker[w].k = nMap
    /\ \/ /\ NoError
          /\ worker' = [worker EXCEPT ![w].pc = "reduce_rename", ![w].k = 0,
                                      ![w].temps = {0}]
       \/ /\ IOError
          /\ worker' = [worker EXCEPT ![w] = Return(w, FALSE)]
       \/ /\ IOError
          /\ worker' = [worker EXCEPT ![w].pc = "reduce_rename", ![w].k = 0,
                                      ![w].temps = {0}, ![w].trunc = TRUE]
    /\ UNCHANGED <<coordVars, interFiles, outFiles>>

\* os.Rename(tempName, "mr-out-<id>"); on an error the temporary is removed
ReduceRename(w) ==
    /\ worker[w].pc = "reduce_rename"
    /\ \/ /\ NoError
          /\ worker' = [worker EXCEPT ![w] = Return(w, TRUE)]
          /\ outFiles' = Settle(
                 [outFiles EXCEPT ![worker[w].TaskId] =
                      Renamed(w, worker[w].trunc, worker[w].lost)],
                 w, HowEnded(TRUE))
       \/ /\ IOError
          /\ worker' = [worker EXCEPT ![w] = Return(w, FALSE)]
          /\ UNCHANGED outFiles
    /\ UNCHANGED <<coordVars, interFiles>>

\* ---- the environment
\* a worker process dies; what it left in the directory stays
Crash(w) ==
    /\ w \in Mortal
    /\ worker[w].pc \notin {"exited", "crashed"}
    /\ faultsLeft > 0
    /\ faultsLeft' = faultsLeft - 1
    /\ worker' = [worker EXCEPT ![w] =
           [FreshWorker EXCEPT !.pc = "crashed", !.temps = worker[w].temps]]
    /\ interFiles' = Settle(interFiles, w, HowEnded(FALSE))
    /\ UNCHANGED <<coordVars, outFiles>>

Older(tasks) ==
    [i \in DOMAIN tasks |->
        [tasks[i] EXCEPT !.Elapsed = Saturate(@ + TickSeconds)]]

\* time passes
Tick ==
    /\ mapTasks' = Older(mapTasks)
    /\ reduceTasks' = Older(reduceTasks)
    /\ UNCHANGED <<nReduce, nMap, mapDone, allDone, worker, interFiles,
                   outFiles, faultsLeft>>

WorkerStep(w) ==
    \/ GetTask(w)
    \/ Sleep(w)
    \/ ReportTask(w)
    \/ MapPrepare(w)
    \/ MapRename(w)
    \/ MapClean(w)
    \/ ReduceRead(w)
    \/ ReduceWrite(w)
    \/ ReduceRename(w)

Next ==
    \/ \E w \in Workers : WorkerStep(w)
    \/ \E w \in Workers : Crash(w)
    \/ Tick

Spec == Init /\ [][Next]_vars

\* the scheduler runs worker 1 and the clock keeps going
FairSpec ==
    FairInit /\ [][Next]_vars /\ WF_vars(WorkerStep(1)) /\ WF_vars(Tick)

\* the same program, every worker noting the final paths it finds as it
\* starts a map task
NotingStep(w) ==
    \/ GetTaskNoting(w)
    \/ Sleep(w)
    \/ ReportTask(w)
    \/ MapPrepare(w)
    \/ MapRename(w)
    \/ MapClean(w)
    \/ ReduceRead(w)
    \/ ReduceWrite(w)
    \/ ReduceRename(w)

NotingNext ==
    \/ \E w \in Workers : NotingStep(w)
    \/ \E w \in Workers : Crash(w)
    \/ Tick

NotingSpec == Init /\ [][NotingNext]_vars

\* the scheduler runs every worker process that is alive (workers keep
\* calling GetTask until they are told to exit) and the clock keeps going
LiveSpec ==
    /\ FairInit
    /\ [][Next]_vars
    /\ \A w \in 1..MaxFairSize : WF_vars(w \in Workers /\ WorkerStep(w))
    /\ WF_vars(Tick)

\* ---- the coordinator as an RPC server
\* rpc.Register(c) serves GetTask and ReportTask to whoever calls them, with
\* whatever arguments.  The handlers run one at a time under c.mu, so one
\* client that sends the calls in turn stands for any number of them.
RpcInit ==
    /\ InitWithin(MaxRpcSize)
    /\ Workers = {1}
    /\ faultsLeft = 0

\* the values a client may put in ReportTaskArgs.TaskType (an int): the four
\* constants and one below and above them
RpcTaskTypes == (MapTask - 1)..(NoTask + 1)

\* ... and in ReportTaskArgs.TaskId: from -1 to past the end of both tables
RpcTaskIds == (0 - 1)..(IF nMap > nReduce THEN nMap ELSE nReduce)

\* args := ReportTaskArgs{TaskType, TaskId, Success}, any values
AnyReport(w) ==
    /\ worker[w].pc = "get"
    /\ \E type \in RpcTaskTypes, id \in RpcTaskIds, ok \in BOOLEAN :
          worker' = [worker EXCEPT ![w] =
              [FreshWorker EXCEPT !.pc = "report", !.TaskType = type,
                                  !.TaskId = id, !.success = ok]]
    /\ UNCHANGED <<coordVars, interFiles, outFiles, faultsLeft>>

\* the client does nothing with a reply of GetTask and calls again
Abandon(w) ==
    /\ worker[w].pc \in {"map", "reduce_read", "sleep", "exited"}
    /\ worker' = [worker EXCEPT ![w] = FreshWorker]
    /\ UNCHANGED <<coordVars, interFiles, outFiles, faultsLeft>>

RpcNext ==
    \/ \E w \in Workers : GetTask(w)
    \/ \E w \in Workers : AnyReport(w)
    \/ \E w \in Workers : ReportTask(w)
    \/ \E w \in Workers : Abandon(w)
    \/ Tick

RpcSpec == RpcInit /\ [][RpcNext]_vars

\* ---- claims

\* C1: whenever GetTask moves a reduce task to IN_PROGRESS and returns a
\* REDUCE reply, every map task is COMPLETED at that moment
C1_ReduceOnlyAfterAllMaps ==
    [][\A w \in Workers :
          (worker[w].pc = "get" /\ worker'[w].pc = "reduce_read")
              => AllCompleted(mapTasks')]_vars

\* C2: GetTask never returns EXIT while any task, map or reduce, is in a
\* state other than COMPLETED
C2_ExitOnlyWhenAllCompleted ==
    [][\A w \in Workers :
          (worker[w].pc = "get" /\ worker'[w].pc = "exited")
              => (AllCompleted(mapTasks') /\ AllCompleted(reduceTasks'))]_vars

\* C3: COMPLETED is terminal: once a map or reduce task is COMPLETED, no later
\* GetTask or ReportTask changes its state
C3_CompletedIsTerminal ==
    [][/\ \A m \in MapIds : mapTasks[m].State = TaskCompleted
                                => mapTasks'[m].State = TaskCompleted
       /\ \A r \in ReduceIds : reduceTasks[r].State = TaskCompleted
                                => reduceTasks'[r].State = TaskCompleted]_vars

\* C4 as stated: in every reachable state, all_done is true if and only if
\* every reduce task is COMPLETED
C4_AllDoneIffReducesCompleted ==
    allDone <=> AllCompleted(reduceTasks)

\* C4 as amended: all_done turns true only in a GetTask call that finds every
\* reduce task COMPLETED and returns EXIT; nothing else sets it
C4_AllDoneSetByExit ==
    [][(~allDone /\ allDone')
          => /\ AllCompleted(reduceTasks')
             /\ \E w \in Workers :
                   worker[w].pc = "get" /\ worker'[w].pc = "exited"]_vars

\* C4 witness: all_done has just been set by the GetTask that served EXIT
C4_Witness ==
    /\ allDone
    /\ AllCompleted(reduceTasks)
    /\ nReduce >= 2
    /\ \E w \in Workers : worker[w].pc = "exited"

\* C5: all_done is monotone: once Done() has returned true, every later
\* Done() returns true, whatever GetTask and ReportTask calls come between
C5_DoneMonotone == [][Done => Done']_vars

\* C5 witness: Done() is true and a late failure report has since put a
\* reduce task back to IDLE
C5_Witness ==
    /\ Done
    /\ \E r \in ReduceIds : reduceTasks[r].State = TaskIdle

\* C6: with worker 1 kept running and the clock advancing, Done() eventually
\* returns true, though other workers crash, stall past the timeout or
\* report failures (finitely often)
C6_EventuallyDone == <>Done

\* C6 witness: the job is done in a run in which a worker crashed while it
\* held a task
C6_Witness ==
    /\ Done
    /\ nMap >= 1
    /\ \E w \in Workers : worker[w].pc = "crashed"

\* C7: any file visible as mr-<m>-<r> was put there by an execution of map m
\* that completed successfully, never by one that crashed or failed partway
C7_InterFilesFromSuccessfulRuns ==
    \A x \in DOMAIN interFiles :
        interFiles[x].exists => interFiles[x].run # "aborted"

\* C8: while the coordinator holds map task m COMPLETED, all R files
\* mr-<m>-0 .. mr-<m>-(R-1) exist
C8_CompletedMapHasAllFiles ==
    \A m \in MapIds :
        mapTasks[m].State = TaskCompleted
            => \A r \in ReduceIds : interFiles[<<m, r>>].exists

\* C9: in every reachable state where all_done is true, mr-out-<r> exists for
\* every reduce index r
C9_DoneImpliesOutputs ==
    allDone => \A r \in ReduceIds : outFiles[r].exists

\* C9 witness: the job is done with two output files, while a reaped worker
\* whose execution of a reduce failed is about to report it
C9_Witness ==
    /\ allDone
    /\ nReduce >= 2
    /\ \A r \in ReduceIds : outFiles[r].exists
    /\ \E w \in Workers :
          /\ worker[w].pc = "report"
          /\ worker[w].TaskType = ReduceTask
          /\ ~worker[w].success

\* C10: whenever mr-out-<r> exists under its final name, its content is the
\* full output of an execution of reduce r, never a truncated one, also when
\* a write to the temporary file fails
C10_NoTruncatedOutput ==
    \A r \in ReduceIds : outFiles[r].exists => ~outFiles[r].trunc

\* the content of mr-out-<r> is what the sequential run writes for the keys
\* of partition r: every intermediate file of the partition was read and
\* every line written
WholeOutput(f) == f.exists /\ ~f.lost /\ ~f.trunc

\* C11: when the job is done, the mr-out-<r> files together hold the output
\* of the single-threaded reference run: each exists and holds the reduce
\* output of every key of its partition, for every schedule of workers
C11_OutputEqualsSequential ==
    allDone => \A r \in ReduceIds : WholeOutput(outFiles[r])

\* the task table a report of the given type is about
TasksOf(c, type) == IF type = MapTask THEN c.mapTasks ELSE c.reduceTasks

\* C12: a ReportTask with success=true for an in-range task id leaves the
\* task COMPLETED whatever its state was (IDLE after a reap, IN_PROGRESS
\* under another worker, COMPLETED), and the same report applied again
\* yields the same coordinator state
C12_SuccessReportAccepted ==
    [][\A w \in Workers :
          (worker[w].pc = "report" /\ worker'[w].pc = "get"
              /\ worker[w].success)
          => /\ TasksOf(Coordinator', worker[w].TaskType)[worker[w].TaskId].State
                    = TaskCompleted
             /\ ReportTaskResult(Coordinator', worker[w].TaskType,
                                 worker[w].TaskId, TRUE) = Coordinator']_vars

\* C12 witness: a map task is COMPLETED by one worker's success report while
\* a second worker, reaped from the same task, is about to report success
\* for it too
C12_Witness ==
    \E w \in Workers :
        /\ worker[w].pc = "report"
        /\ worker[w].success
        /\ worker[w].TaskType = MapTask
        /\ mapTasks[worker[w].TaskId].State = TaskCompleted

\* worker w's call of GetTask returns in this step
GotReply(w) ==
    /\ worker[w].pc = "get"
    /\ worker'[w].pc \in {"map", "reduce_read", "exited", "sleep"}

\* C13 as stated: on a freshly created coordinator with M=0 and R=3 the first
\* GetTask returns EXIT
C13_EmptyInputExits ==
    [][\A w \in Workers :
          (GotReply(w) /\ Coordinator = MakeCoordinator(0, 3))
              => worker'[w].pc = "exited"]_vars

\* C13 as amended: on a freshly created coordinator with M=0 and R=3 the
\* first GetTask sets mapDone and returns REDUCE for reduce task 0, and with
\* M=0 and R=3 EXIT is returned only when the three reduce tasks are COMPLETED
C13_EmptyInputReduces ==
    [][\A w \in Workers :
          /\ (GotReply(w) /\ Coordinator = MakeCoordinator(0, 3))
                => /\ worker'[w].pc = "reduce_read"
                   /\ worker'[w].TaskType = ReduceTask
                   /\ worker'[w].TaskId = 0
                   /\ mapDone' /\ ~allDone'
                   /\ reduceTasks'[0].State = TaskInProgress
                   /\ \A r \in 1..2 : reduceTasks'[r].State = TaskIdle
          /\ (GotReply(w) /\ worker'[w].pc = "exited"
                  /\ nMap = 0 /\ nReduce = 3)
                => AllCompleted(reduceTasks')]_vars

\* C13 witness: M=0, R=3 and the job is done, after the three reduce tasks
\* were dispatched and reported
C13_Witness ==
    /\ nMap = 0 /\ nReduce = 3
    /\ allDone /\ mapDone
    /\ \E w \in Workers : worker[w].pc = "exited"
    /\ \A r \in ReduceIds : outFiles[r].exists

\* the report names a task of the coordinator: MAP or REDUCE, and an index
\* of that table
NamesTask(c, type, id) ==
    \/ type = MapTask /\ id >= 0 /\ id < Len0(c.mapTasks)
    \/ type = ReduceTask /\ id >= 0 /\ id < Len0(c.reduceTasks)

\* C14: ReportTask leaves the whole coordinator state (every map and reduce
\* task, map_phase_done, all_done) unchanged when task_type is neither MAP
\* nor REDUCE, or task_id is negative or not below the length of the table
C14_StrayReportIgnored ==
    [][\A w \in Workers :
          (worker[w].pc = "report" /\ worker'[w].pc = "get"
              /\ ~NamesTask(Coordinator, worker[w].TaskType, worker[w].TaskId))
              => UNCHANGED coordVars]_vars

\* C14 witness: a report with task type EXIT and id 0 is at the coordinator,
\* which is in the reduce phase with tasks IN_PROGRESS and COMPLETED
C14_Witness ==
    /\ mapDone
    /\ nMap >= 1
    /\ \E r \in ReduceIds : reduceTasks[r].State = TaskInProgress
    /\ \E r \in ReduceIds : reduceTasks[r].State = TaskCompleted
    /\ worker[1].pc = "report"
    /\ worker[1].TaskType = ExitTask
    /\ worker[1].TaskId = 0

IdleMap(i) == i \in MapIds /\ mapTasks[i].State = TaskIdle

IdleReduce(i) == i \in ReduceIds /\ reduceTasks[i].State = TaskIdle

SomeCrashed == \E w \in Workers : worker[w].pc = "crashed"

\* C15: a task that is IDLE, as it is after a ReportTask with success=false,
\* is eventually dispatched again (or completed) in every run in which no
\* worker dies, so that every worker keeps calling GetTask until it is told
\* to exit; in whichever phase the task became IDLE
C15_FailedTaskRedispatched ==
    \A i \in 0..(MaxFairSize - 2) :
        /\ [](IdleMap(i) => <>(~IdleMap(i) \/ SomeCrashed))
        /\ [](IdleReduce(i) => <>(~IdleReduce(i) \/ SomeCrashed))

\* the execution of worker w returns false in this step
ReturnsFalse(w) ==
    /\ worker[w].pc \in {"map", "map_rename", "map_clean", "reduce_read",
                         "reduce_rename"}
    /\ worker'[w].pc = "report"
    /\ ~worker'[w].success

\* C16: an execution of a map or reduce task that fails at any step has
\* removed its temporary files when it returns, goes on to report failure,
\* and no step of it changes a final path from what it was when the
\* execution started: its cleanup removes no mr-<m>-<r> that was there at
\* the start, and a failing reduce leaves every mr-out-<r> alone
C16_FailureLeavesFinalPaths ==
    [][\A w \in Workers :
          /\ ReturnsFalse(w)
                => /\ worker'[w].temps = {}
                   /\ worker[w].pc \in {"reduce_read", "reduce_rename"}
                         => UNCHANGED outFiles
          /\ (worker[w].pc = "map_clean" /\ worker[w].k \in worker[w].before)
                => interFiles'[<<worker[w].TaskId, worker[w].k>>].exists]_vars

\* IN_PROGRESS for more than the timeout since the latest dispatch
Stalled(t) == t.State = TaskInProgress /\ t.Elapsed > Timeout

\* what one GetTask call may do to a task table: the task named in the reply
\* r was IDLE or stalled and is now IN_PROGRESS, stamped now; any other
\* stalled task is IDLE, its stamp kept; every other task is as it was
ReapedAndGiven(old, new, type, r) ==
    \A i \in DOMAIN old :
        IF r.TaskType = type /\ r.TaskId = i
        THEN /\ old[i].State = TaskIdle \/ Stalled(old[i])
             /\ new[i] = [State |-> TaskInProgress, Elapsed |-> 0]
        ELSE IF Stalled(old[i])
             THEN new[i] = [State |-> TaskIdle, Elapsed |-> old[i].Elapsed]
             ELSE new[i] = old[i]

\* C17: every GetTask sets to IDLE exactly the map and reduce tasks that are
\* IN_PROGRESS for more than 10 seconds since their latest dispatch, and
\* changes no other task but the one it dispatches, which it stamps anew; a
\* task dispatched 10 seconds ago or less is left IN_PROGRESS
C17_ReapExactlyStalled ==
    [][\A w \in Workers :
          GotReply(w)
              => /\ ReapedAndGiven(mapTasks, mapTasks', MapTask, worker'[w])
                 /\ ReapedAndGiven(reduceTasks, reduceTasks', ReduceTask,
                                   worker'[w])]_vars

\* C17 witness: a map task was reaped while a worker is still executing it
\* and has been dispatched to a second worker; both are at work on it, and
\* another map task is COMPLETED
C17_Witness ==
    \E w \in Workers :
        /\ worker[w].pc \in {"map", "map_rename"}
        /\ mapTasks[worker[w].TaskId].State = TaskInProgress
        /\ \E v \in Workers \ {w} :
              /\ worker[v].pc \in {"map", "map_rename"}
              /\ worker[v].TaskId = worker[w].TaskId
        /\ \E m \in MapIds : mapTasks[m].State = TaskCompleted

\* nothing to hand out from a table, and not all of it COMPLETED
MustWait(tasks) == ~HasIdle(tasks) /\ ~AllCompleted(tasks)

\* the map phase is done: the flag is cached, or every map task is COMPLETED
MapPhaseDone(flag, tasks) == flag \/ AllCompleted(tasks)

\* C18: GetTask returns WAIT exactly when, after reaping, either the map
\* phase is not done, no map task is IDLE and some map task is not COMPLETED,
\* or the map phase is done, no reduce task is IDLE and some reduce task is
\* not COMPLETED; such a call changes no task beyond the reap, does not set
\* all_done, and in the first case does not set map_phase_done
C18_WaitExactly ==
    [][\A w \in Workers :
          GotReply(w) =>
              LET maps == ReapTable(mapTasks)
                  reduces == ReapTable(reduceTasks)
                  first == ~MapPhaseDone(mapDone, maps) /\ MustWait(maps)
                  second == MapPhaseDone(mapDone, maps) /\ MustWait(reduces)
              IN  /\ (worker'[w].pc = "sleep") <=> (first \/ second)
                  /\ (worker'[w].pc = "sleep")
                        => /\ worker'[w].TaskType = NoTask
                           /\ mapTasks' = maps
                           /\ reduceTasks' = reduces
                           /\ allDone' = allDone
                           /\ first => (mapDone' = mapDone)]_vars

\* C18 witness: a worker was told to wait in the reduce phase: every reduce
\* task is taken, one is still IN_PROGRESS and one is COMPLETED
C18_Witness ==
    /\ mapDone /\ ~allDone
    /\ \E w \in Workers : worker[w].pc = "sleep"
    /\ ~HasIdle(reduceTasks)
    /\ \E r \in ReduceIds : reduceTasks[r].State = TaskInProgress
    /\ \E r \in ReduceIds : reduceTasks[r].State = TaskCompleted

\* C19: in every reachable state the cached flag mapDone is true only if
\* every map task is COMPLETED
C19_MapDoneMeansAllMapsCompleted ==
    mapDone => AllCompleted(mapTasks)

\* C20: once a GetTask call has returned EXIT (which is when allDone is set),
\* every later GetTask call returns EXIT too, whatever reports arrive between
C20_ExitForEver ==
    [][\A w \in Workers :
          (allDone /\ GotReply(w)) => worker'[w].pc = "exited"]_vars

\* worker w is inside performMapTask or performReduceTask
Executing(w) ==
    worker[w].pc \in {"map", "map_rename", "map_clean", "reduce_read",
                      "reduce_rename"}

\* worker w's call of ReportTask is served in this step
Reported(w) == worker[w].pc = "report" /\ worker'[w].pc = "get"

\* the flags and the task states, without the clock
Progress(c) ==
    <<[i \in DOMAIN c.mapTasks |-> c.mapTasks[i].State],
      [i \in DOMAIN c.reduceTasks |-> c.reduceTasks[i].State],
      c.mapDone, c.allDone>>

\* C21: a worker sends exactly one ReportTask for each MAP or REDUCE reply,
\* with the reply's task type and id; it reports success only when its last
\* rename has put the last output file of the task under its final name
\* (all R files of a map, mr-out-<id> of a reduce); a worker that crashes
\* sends nothing more
C21_OneReportPerReply ==
    [][\A w \in Workers :
          /\ (GotReply(w) /\ worker'[w].pc \in {"map", "reduce_read"})
                => worker'[w].TaskType
                      = (IF worker'[w].pc = "map" THEN MapTask ELSE ReduceTask)
          /\ Executing(w)
                => /\ worker'[w].pc \in {worker[w].pc, "map_rename",
                                         "map_clean", "reduce_rename",
                                         "report", "crashed"}
                   /\ worker'[w].pc # "crashed"
                         => /\ worker'[w].TaskType = worker[w].TaskType
                            /\ worker'[w].TaskId = worker[w].TaskId
                   /\ Progress(Coordinator') = Progress(Coordinator)
                         \/ \E v \in Workers \ {w} : GotReply(v) \/ Reported(v)
          /\ (Executing(w) /\ worker'[w].pc = "report" /\ worker'[w].success)
                => \/ /\ worker[w].pc = "map_rename"
                      /\ worker[w].TaskType = MapTask
                      /\ worker[w].temps = {nReduce - 1}
                      /\ interFiles'[<<worker[w].TaskId, nReduce - 1>>].exists
                   \/ /\ worker[w].pc = "reduce_rename"
                      /\ worker[w].TaskType = ReduceTask
                      /\ worker[w].temps = {0}
                      /\ outFiles'[worker[w].TaskId].exists
          /\ worker[w].pc = "report"
                => /\ worker'[w].pc \in {"report", "get", "crashed"}
                   /\ worker[w].TaskType \in {MapTask, ReduceTask}
                   /\ Reported(w)
                         => Coordinator' =
                               ReportTaskResult(Coordinator, worker[w].TaskType,
                                   worker[w].TaskId, worker[w].success)
                   /\ ~Reported(w) /\ worker'[w].pc # "crashed"
                         => worker'[w] = worker[w]
          /\ worker[w].pc = "crashed"
                => worker'[w] = worker[w]]_vars

\* C21 witness: a worker crashed in the middle of its renames (temporaries
\* are left behind) and sent nothing, and another worker has renamed every
\* file of a map task and is about to report success
C21_Witness ==
    /\ nReduce >= 2
    /\ \E w \in Workers :
          worker[w].pc = "crashed" /\ worker[w].temps # {}
    /\ \E v \in Workers :
          /\ worker[v].pc = "report"
          /\ worker[v].success
          /\ worker[v].TaskType = MapTask
          /\ \A r \in ReduceIds : interFiles[<<worker[v].TaskId, r>>].exists
====
